---- MODULE Spec2Model ----
(***************************************************************************)
(* Regular expression -> DFA pipeline of Cooper_Torczan_Compilers.         *)
(*  - src/src/dfa.rs   : subset construction (construct_dfa) and the       *)
(*                       partition refinement (construct_minimal_dfa)      *)
(*  - src/src/regex.rs : the recursive-descent pattern parser              *)
(* Two specifications share the variables: Spec runs the automaton         *)
(* pipeline on every small epsilon-NFA, SpecParse runs the parser on every *)
(* short pattern.                                                          *)
(***************************************************************************)
EXTENDS Integers, Sequences, FiniteSets, TLC

VARIABLES
    nfa,            \* the epsilon-NFA handed to construct_dfa
    pc,             \* position of the pipeline
    result,         \* construct_dfa: the DFA under construction
    q_list,         \* construct_dfa: NFA state set -> DFA state id
    work_list,      \* construct_dfa: queue of NFA state sets
    alpha_order,    \* iteration order of the alphabet HashSet
    lookup_table,   \* construct_minimal_dfa: the LookupTable
    number_of_sets, \* construct_minimal_dfa: block count at the start of the pass
    sets,           \* construct_minimal_dfa: blocks of the snapshot not yet visited
    minimal_dfa,    \* construct_minimal_dfa: the local minimal_dfa
    stdout,         \* the partitions printed so far, one entry per call
    regex,          \* the pattern under construction / handed to the parser
    parsed,         \* outcome of build_syntax_tree
    passes,         \* construct_minimal_dfa: iterations of `loop` begun in this call
    regex_list,     \* parse_microsyntax_list: the (pattern, category) pairs
    list_result     \* outcome of parse_microsyntax_list

listVars == <<regex_list, list_result>>

vars == <<nfa, pc, result, q_list, work_list, alpha_order, lookup_table,
          number_of_sets, sets, minimal_dfa, stdout, regex, parsed, passes, listVars>>

(***************************************************************************)
(* Bounds                                                                  *)
(***************************************************************************)
MaxNfaStates == 3
MaxNfaEdges == 4
MaxStrLen == 3
MaxMinimizeCalls == 2
MaxPatternLen == 5
MaxClassLen == 7
MaxListLen == 3
MaxTableStates == 4
MaxTableSets == 3

\* characters that label NFA transitions
Chars == {"a", "b"}
Epsilon == "eps"

(***************************************************************************)
(* Generic helpers                                                         *)
(***************************************************************************)
EmptyMap == [x \in {} |-> 0]

Min(S) == CHOOSE x \in S : \A y \in S : x <= y

RECURSIVE iter_ones(_)
\* BitVec::iter_ones: the set bits in ascending order
iter_ones(S) ==
    IF S = {} THEN <<>> ELSE <<Min(S)>> \o iter_ones(S \ {Min(S)})

RECURSIVE Perms(_)
\* every iteration order of a hash set
Perms(S) ==
    IF S = {} THEN {<<>>}
    ELSE UNION {{<<x>> \o p : p \in Perms(S \ {x})} : x \in S}

Range(f) == {f[x] : x \in DOMAIN f}

MapRemove(m, k) == [x \in DOMAIN m \ {k} |-> m[x]]

(***************************************************************************)
(* The NFA (external collaborator: number of states, start, acceptors,     *)
(* alphabet, per-state transition lookup)                                  *)
(***************************************************************************)
NewNFA ==
    [num_states |-> 1, start_state |-> 0, accept_states |-> {}, trans |-> {}]

nfa_states(n) == 0 .. (n.num_states - 1)

\* NFA::get_alphabet: the characters on the non-epsilon transitions
nfa_alphabet(n) == {e[2] : e \in {x \in n.trans : x[2] # Epsilon}}

\* NFAState::get_transitions().get(symbol)
nfa_targets(n, s, sym) == {e[3] : e \in {x \in n.trans : x[1] = s /\ x[2] = sym}}

(***************************************************************************)
(* DFA (dfa.rs)                                                            *)
(***************************************************************************)
NewDFA ==
    [states |-> <<>>, start_state |-> 0, accept_states |-> <<>>, alphabet |-> {}]

dfa_add_state(d) ==
    [d EXCEPT !.states = Append(@, EmptyMap),
              !.accept_states = Append(@, FALSE)]

dfa_set_accept_state(d, id) ==
    [d EXCEPT !.accept_states[id + 1] = TRUE]

\* variant: the transition is stored under Symbol::Epsilon
dfa_add_transition_epsilon(d, from, c, to) ==
    [d EXCEPT !.states[from + 1] = (Epsilon :> to) @@ @]

dfa_add_transition(d, from, c, to) ==
    [d EXCEPT !.states[from + 1] = (c :> to) @@ @]

dfa_get_num_states(d) == Len(d.states)

dfa_ids(d) == 0 .. (Len(d.states) - 1)

\* DFAState::get_transitions of DFA::get_state(id)
get_transitions(d, id) == d.states[id + 1]

dfa_accepting(d) == {i \in dfa_ids(d) : d.accept_states[i + 1]}

\* variant: the epsilon-targets of the given states are added but not followed
closure_loop_targets_not_followed(n, queue, visited, epsilon_closure) ==
    Range(queue) \cup UNION {nfa_targets(n, s, Epsilon) : s \in Range(queue)}

RECURSIVE closure_loop(_, _, _, _)
closure_loop(n, queue, visited, epsilon_closure) ==
    IF queue = <<>> THEN epsilon_closure
    ELSE LET state == Head(queue)
             targets == iter_ones(nfa_targets(n, state, Epsilon))
             fresh == SelectSeq(targets, LAMBDA t : t \notin visited)
         IN closure_loop(n, Tail(queue) \o fresh, visited \cup Range(fresh),
                         epsilon_closure \cup {state})

\* variant: the set itself, no epsilon-transition followed
get_epsilon_closure_unclosed(n, states) == states

get_epsilon_closure(n, states) == closure_loop(n, iter_ones(states), {}, {})

delta(n, q, c) == UNION {nfa_targets(n, node, c) : node \in q}

\* variant: a DFA state is added without looking the set up in q_list
dfa_char_step_always_new(n, st, q, c) ==
    LET end_states == delta(n, q, c)
        t == get_epsilon_closure(n, end_states)
        di == dfa_get_num_states(st.result)
        added == dfa_add_state(st.result)
        st1 == [result |-> IF t \cap n.accept_states # {}
                           THEN dfa_set_accept_state(added, di) ELSE added,
                q_list |-> (t :> di) @@ st.q_list,
                work_list |-> Append(st.work_list, t)]
    IN IF end_states = {} THEN st
       ELSE [st1 EXCEPT !.result =
                 dfa_add_transition(@, st1.q_list[q], c, st1.q_list[t])]

\* one iteration of `for c in dfa_alphabet.iter()` for the popped set q
dfa_char_step(n, st, q, c) ==
    LET end_states == delta(n, q, c)
        t == get_epsilon_closure(n, end_states)
        di == dfa_get_num_states(st.result)
        added == dfa_add_state(st.result)
        st1 == IF t \notin DOMAIN st.q_list
               THEN [result |-> IF t \cap n.accept_states # {}
                                THEN dfa_set_accept_state(added, di) ELSE added,
                     q_list |-> (t :> di) @@ st.q_list,
                     work_list |-> Append(st.work_list, t)]
               ELSE st
    IN IF end_states = {} THEN st
       ELSE [st1 EXCEPT !.result =
                 dfa_add_transition(@, st1.q_list[q], c, st1.q_list[t])]

RECURSIVE dfa_for_chars(_, _, _, _)
dfa_for_chars(n, st, q, cs) ==
    IF cs = <<>> THEN st
    ELSE dfa_for_chars(n, dfa_char_step(n, st, q, Head(cs)), q, Tail(cs))

(***************************************************************************)
(* LookupTable (dfa.rs)                                                    *)
(***************************************************************************)
NewLookupTable == [state_to_set_map |-> EmptyMap, set_to_states_map |-> EmptyMap]

\* set_to_states_map.entry(set).or_insert_with(HashSet::new).insert(state)
entry_insert(m, set, state) ==
    IF set \in DOMAIN m THEN [m EXCEPT ![set] = @ \cup {state}]
    ELSE (set :> {state}) @@ m

\* variant: the state is not removed from the set it was in
insert_state_in_set_keeps_prior(lt, state, set) ==
    [state_to_set_map |-> (state :> set) @@ lt.state_to_set_map,
     set_to_states_map |-> entry_insert(lt.set_to_states_map, set, state)]

insert_state_in_set(lt, state, set) ==
    LET had == state \in DOMAIN lt.state_to_set_map
        prev_set_key == lt.state_to_set_map[state]
        m0 == lt.set_to_states_map
        removed ==
            IF had /\ prev_set_key \in DOMAIN m0
            THEN IF m0[prev_set_key] \ {state} = {}
                 THEN MapRemove(m0, prev_set_key)
                 ELSE [m0 EXCEPT ![prev_set_key] = @ \ {state}]
            ELSE m0
        m1 == entry_insert(removed, set, state)
    IN [state_to_set_map |-> (state :> set) @@ lt.state_to_set_map,
        set_to_states_map |-> entry_insert(m1, set, state)]

get_set_of_state(lt, state) == lt.state_to_set_map[state]

get_num_sets(lt) == Cardinality(DOMAIN lt.set_to_states_map)

get_sets(lt) == Range(lt.set_to_states_map)

RECURSIVE insert_all(_, _, _)
insert_all(lt, states, set) ==
    IF states = <<>> THEN lt
    ELSE insert_all(insert_state_in_set(lt, Head(states), set), Tail(states), set)

\* lines 290-296: acceptors into set 0, the others into set 1
initial_partition(d) ==
    insert_all(insert_all(NewLookupTable, iter_ones(dfa_accepting(d)), 0),
               iter_ones(dfa_ids(d) \ dfa_accepting(d)), 1)

RECURSIVE compare_chars(_, _, _, _, _, _)
RECURSIVE compare_chars_targets_only(_, _, _, _, _, _)
\* variant: a transition that only one of the two states has does not split
compare_chars_targets_only(d, lt, state_id, member_state_id, next_set, cs) ==
    IF cs = <<>> THEN lt
    ELSE LET c == Head(cs)
             state_transitions == get_transitions(d, state_id)
             member_state_transitions == get_transitions(d, member_state_id)
         IN IF c \notin DOMAIN state_transitions \/ c \notin DOMAIN member_state_transitions
            THEN compare_chars_targets_only(d, lt, state_id, member_state_id,
                                            next_set, Tail(cs))
            ELSE IF get_set_of_state(lt, state_transitions[c])
                      = get_set_of_state(lt, member_state_transitions[c])
            THEN compare_chars_targets_only(d, lt, state_id, member_state_id,
                                            next_set, Tail(cs))
            ELSE insert_state_in_set(lt, state_id, next_set)

\* `for c in alphabet` of one state against the member state
compare_chars(d, lt, state_id, member_state_id, next_set, cs) ==
    IF cs = <<>> THEN lt
    ELSE LET c == Head(cs)
             state_transitions == get_transitions(d, state_id)
             member_state_transitions == get_transitions(d, member_state_id)
             has_state == c \in DOMAIN state_transitions
             has_member == c \in DOMAIN member_state_transitions
         IN IF ~has_state /\ ~has_member
            THEN compare_chars(d, lt, state_id, member_state_id, next_set, Tail(cs))
            ELSE IF ~has_state \/ ~has_member
            THEN compare_chars(d, insert_state_in_set(lt, state_id, next_set),
                               state_id, member_state_id, next_set, Tail(cs))
            ELSE IF get_set_of_state(lt, state_transitions[c])
                      = get_set_of_state(lt, member_state_transitions[c])
            THEN compare_chars(d, lt, state_id, member_state_id, next_set, Tail(cs))
            ELSE insert_state_in_set(lt, state_id, next_set)

RECURSIVE compare_states(_, _, _, _, _, _)
\* `for state_id in set`
compare_states(d, lt, order, member_state_id, next_set, cs) ==
    IF order = <<>> THEN lt
    ELSE compare_states(d,
             compare_chars(d, lt, Head(order), member_state_id, next_set, cs),
             Tail(order), member_state_id, next_set, cs)

\* variant: the id of the split-off set is one below the number of sets
visit_set_next_set_below(d, lt, order, cs) ==
    IF Len(order) = 1 THEN lt
    ELSE compare_states(d, lt, order, Head(order), get_num_sets(lt) - 1, cs)

\* body of `for set in sets`; order is the iteration order of the set
visit_set(d, lt, order, cs) ==
    IF Len(order) = 1 THEN lt
    ELSE compare_states(d, lt, order, Head(order), get_num_sets(lt) + 1, cs)

(***************************************************************************)
(* Pattern parser (regex.rs).  A pattern is a sequence of characters, a    *)
(* character is a one-character string (EAcute stands for a character of   *)
(* two UTF-8 bytes).                                                       *)
(***************************************************************************)
EAcute == "e'"

PatternChars == {"(", ")", "[", "]", "|", "*", "+", "?", "\\", "-", "a", "n", EAcute}

\* char as u32, the order used by `char_end < char_start` and `a..=b`
CodePoint(c) ==
    CASE c = "(" -> 40 [] c = ")" -> 41 [] c = "*" -> 42 [] c = "+" -> 43
      [] c = "-" -> 45 [] c = "?" -> 63 [] c = "[" -> 91 [] c = "\\" -> 92
      [] c = "]" -> 93 [] c = "a" -> 97 [] c = "n" -> 110 [] c = "|" -> 124
      [] c = EAcute -> 233

Utf8Len(c) == IF CodePoint(c) < 128 THEN 1 ELSE 2

RECURSIVE len(_)
\* str::len: the length in bytes
len(s) == IF s = <<>> THEN 0 ELSE Utf8Len(Head(s)) + len(Tail(s))

None == "None"

\* regex.chars().nth(i)
nth(s, i) == IF i < Len(s) THEN s[i + 1] ELSE None

\* outcomes of a parsing function: Ok((node, index)), Err(error), or a panic
\* (unwrap of None).  esc records the positions at which a backslash was
\* taken as the start of an escape.
NotParsed == [st |-> "none", node |-> <<>>, idx |-> 0, err |-> <<>>, esc |-> {}]
Ok(node, idx, esc) == [st |-> "ok", node |-> node, idx |-> idx, err |-> <<>>, esc |-> esc]
Err(e, esc) == [st |-> "err", node |-> <<>>, idx |-> 0, err |-> e, esc |-> esc]
Panic(esc) == [st |-> "panic", node |-> <<>>, idx |-> 0, err |-> <<>>, esc |-> esc]
WithEsc(r, esc) == [r EXCEPT !.esc = @ \cup esc]

InvalidRegexError(s) == [kind |-> "InvalidRegexError", text |-> s]
UnbalancedParenthesisError(s) == [kind |-> "UnbalancedParenthesisError", text |-> s]
InvalidCharacterRange(a, b) == [kind |-> "InvalidCharacterRange", text |-> <<a, b>>]
InvalidEscapeCharacter(c) == [kind |-> "InvalidEscapeCharacter", text |-> <<c>>]

Character(c) == [kind |-> "Character", c |-> c]
EscapeCharacter(c) == [kind |-> "EscapeCharacter", c |-> c]
Exp(r) == [kind |-> "Exp", regex |-> r]
CharSet(set) == [kind |-> "CharSet", set |-> set]
SimpleFactor(base, quantifier) ==
    [kind |-> "SimpleFactor", base |-> base, quantifier |-> quantifier]
SimpleTerm(f) == [kind |-> "SimpleTerm", factor |-> f]
ConcatTerm(f, t) == [kind |-> "ConcatTerm", factor |-> f, term |-> t]
SimpleRegex(t) == [kind |-> "SimpleRegex", term |-> t]
AlterRegex(t, r) == [kind |-> "AlterRegex", term |-> t, regex |-> r]

RECURSIVE balanced_loop(_, _, _)
\* the while loop of balanced_brackets; i is the number of characters taken
balanced_loop(s, i, stack) ==
    IF i >= Len(s) THEN stack = <<>>
    ELSE LET ch == s[i + 1]
         IN IF ch = "\\" THEN balanced_loop(s, i + 2, stack)
            ELSE IF ch = "(" \/ ch = "[" THEN balanced_loop(s, i + 1, <<ch>> \o stack)
            ELSE IF ch = ")"
            THEN IF stack = <<>> \/ Head(stack) # "(" THEN FALSE
                 ELSE balanced_loop(s, i + 1, Tail(stack))
            ELSE IF ch = "]"
            THEN IF stack = <<>> \/ Head(stack) # "[" THEN FALSE
                 ELSE balanced_loop(s, i + 1, Tail(stack))
            ELSE balanced_loop(s, i + 1, stack)

\* variant: a bracket after a backslash is counted like any other bracket
balanced_brackets_escapes_counted(s) ==
    balanced_loop(SelectSeq(s, LAMBDA c : c # "\\"), 0, <<>>)

balanced_brackets(s) == balanced_loop(s, 0, <<>>)

\* variant: every character is accepted after a backslash
is_escape_char_any(escape_ch) == TRUE

nchar_is_valid(nchar) == nchar \notin {"*", "|", "?", ")", "]"}

is_escape_char(escape_ch) ==
    escape_ch \in {"n", "t", "r", "\\", "(", ")", "[", "]", "|", "*", "+", "?"}

\* the match of lines 150-168: the character an escape inserts into a
\* character class, -1 for the `_` arm
escape_value(c) ==
    CASE c = "n" -> 10 [] c = "t" -> 9 [] c = "r" -> 13
      [] c \in {"\\", "(", ")", "[", "]", "|", "*", "+", "?"} -> CodePoint(c)
      [] OTHER -> -1

RECURSIVE class_loop(_, _, _, _)
\* the while loop of parse_char_class
class_loop(s, new_start, char_set, esc) ==
    IF ~(new_start < len(s)) THEN Ok(char_set, new_start, esc)
    ELSE LET c0 == nth(s, new_start)
             c1 == nth(s, new_start + 1)
             c2 == nth(s, new_start + 2)
         IN IF c0 = None THEN Panic(esc)
            ELSE IF c0 = "]" THEN Ok(char_set, new_start, esc)
            ELSE IF c1 = None THEN Panic(esc)
            ELSE IF c1 = "-"
            THEN IF c2 = None THEN Panic(esc)
                 ELSE IF CodePoint(c2) < CodePoint(c0)
                 THEN Err(InvalidCharacterRange(c0, c2), esc)
                 ELSE class_loop(s, new_start + 3,
                                 char_set \cup (CodePoint(c0) .. CodePoint(c2)), esc)
            ELSE IF c0 = "\\"
            THEN IF ~is_escape_char(c1) \/ escape_value(c1) = -1
                 THEN Err(InvalidEscapeCharacter(c1), esc \cup {new_start})
                 ELSE class_loop(s, new_start + 2, char_set \cup {escape_value(c1)},
                                 esc \cup {new_start})
            ELSE class_loop(s, new_start + 1, char_set \cup {CodePoint(c0)}, esc)

parse_char_class(s, start) == class_loop(s, start, {}, {})

RECURSIVE parse_regex(_, _)
RECURSIVE parse_term(_, _)
RECURSIVE term_loop(_, _, _, _)
RECURSIVE parse_factor(_, _)
RECURSIVE parse_base(_, _)

\* lines 183-189: the group around the regex r parsed after "("
base_exp(r) ==
    IF r.st # "ok" THEN r ELSE Ok(Exp(r.node), r.idx + 1, r.esc)

\* lines 190-203: the class r parsed after "[", then the closing bracket
base_char_set(r) ==
    IF r.st # "ok" THEN r ELSE Ok(CharSet(r.node), r.idx + 1, r.esc)

parse_base(s, start) ==
    LET nchar == nth(s, start)
    IN IF nchar = None THEN Err(InvalidRegexError(s), {})
       ELSE IF nchar = "(" THEN base_exp(parse_regex(s, start + 1))
       ELSE IF nchar = "[" THEN base_char_set(parse_char_class(s, start + 1))
       ELSE IF nchar = "\\"
       THEN LET c == nth(s, start + 1)
            IN IF c = None THEN Panic({start})
               ELSE IF ~is_escape_char(c)
               THEN Err(InvalidEscapeCharacter(c), {start})
               ELSE Ok(EscapeCharacter(c), start + 2, {start})
       ELSE IF nchar_is_valid(nchar) THEN Ok(Character(nchar), start + 1, {})
       ELSE Err(InvalidRegexError(s), {})

\* lines 227-246: the quantifier after the base r
factor_quantifier(s, r) ==
    LET c == nth(s, r.idx)
    IN IF r.st # "ok" THEN r
       ELSE IF r.idx >= len(s) THEN Ok(SimpleFactor(r.node, "None"), r.idx, r.esc)
       ELSE IF c = None THEN Panic(r.esc)
       ELSE IF c = "*" THEN Ok(SimpleFactor(r.node, "Star"), r.idx + 1, r.esc)
       ELSE IF c = "?" THEN Ok(SimpleFactor(r.node, "Question"), r.idx + 1, r.esc)
       ELSE IF c = "+" THEN Ok(SimpleFactor(r.node, "Plus"), r.idx + 1, r.esc)
       ELSE Ok(SimpleFactor(r.node, "None"), r.idx, r.esc)

parse_factor(s, start) == factor_quantifier(s, parse_base(s, start))

RECURSIVE append_innermost(_, _)
append_innermost(t, f) ==
    IF t.kind = "SimpleTerm" THEN ConcatTerm(t.factor, SimpleTerm(f))
    ELSE ConcatTerm(t.factor, append_innermost(t.term, f))

\* variant: the first factor outermost, the last one innermost
next_term_first_outermost(s, prev_term, esc, r) ==
    IF r.st # "ok" THEN WithEsc(r, esc)
    ELSE term_loop(s, append_innermost(prev_term, r.node), r.idx, esc \cup r.esc)

\* lines 258-261: the factor r becomes the head of the term built so far
next_term(s, prev_term, esc, r) ==
    IF r.st # "ok" THEN WithEsc(r, esc)
    ELSE term_loop(s, ConcatTerm(r.node, prev_term), r.idx, esc \cup r.esc)

\* the while loop of parse_term
term_loop(s, prev_term, new_start, esc) ==
    IF ~(new_start < len(s)) THEN Ok(prev_term, new_start, esc)
    ELSE LET nchar == nth(s, new_start)
         IN IF nchar = None THEN Panic(esc)
            ELSE IF nchar = "|" \/ nchar = ")" THEN Ok(prev_term, new_start, esc)
            ELSE next_term(s, prev_term, esc, parse_factor(s, new_start))

\* lines 250-252: the first factor starts the term
first_term(s, r) ==
    IF r.st # "ok" THEN r ELSE term_loop(s, SimpleTerm(r.node), r.idx, r.esc)

parse_term(s, start) == first_term(s, parse_factor(s, start))

RECURSIVE append_last(_, _)
append_last(r, t) ==
    IF r.kind = "SimpleRegex" THEN AlterRegex(r.term, SimpleRegex(t))
    ELSE AlterRegex(r.term, append_last(r.regex, t))

\* variant: the alternation nests to the left, AlterRegex(tn, ... SimpleRegex(t1))
alter_regex_last_first(t, next_regex) ==
    IF next_regex.st # "ok" THEN WithEsc(next_regex, t.esc)
    ELSE Ok(append_last(next_regex.node, t.node), next_regex.idx,
            t.esc \cup next_regex.esc)

\* lines 282-283: the term t, then the regex parsed after "|"
alter_regex(t, next_regex) ==
    IF next_regex.st # "ok" THEN WithEsc(next_regex, t.esc)
    ELSE Ok(AlterRegex(t.node, next_regex.node), next_regex.idx,
            t.esc \cup next_regex.esc)

\* lines 279-287: what follows the first term t
regex_after_term(s, t) ==
    LET c == nth(s, t.idx)
    IN IF t.st # "ok" THEN t
       ELSE IF t.idx >= len(s) THEN Ok(SimpleRegex(t.node), t.idx, t.esc)
       ELSE IF c = None THEN Panic(t.esc)
       ELSE IF c = "|" THEN alter_regex(t, parse_regex(s, t.idx + 1))
       ELSE Ok(SimpleRegex(t.node), t.idx, t.esc)

parse_regex(s, start) ==
    IF ~balanced_brackets(s) THEN Err(UnbalancedParenthesisError(s), {})
    ELSE IF len(s) = 0 THEN Err(InvalidRegexError(s), {})
    ELSE regex_after_term(s, parse_term(s, start))

\* outcome of parse_microsyntax_list before it is called; afterwards st is
\* "ok" (list is the returned VecDeque), "err" or "panic"
NotListed == [st |-> "none", list |-> <<>>, err |-> <<>>, calls |-> 0]

\* build_syntax_tree: the tree of parse_regex(regex, 0); the index is dropped
build_syntax_tree(s) ==
    LET r == parse_regex(s, 0)
    IN IF r.st = "ok" THEN Ok(r.node, 0, r.esc) ELSE r

RECURSIVE list_loop(_, _, _)

\* variant: a pattern that fails is left out and the loop goes on
list_next_skips_failure(rest, syntax_tree_list, calls, entry, r) ==
    IF r.st # "ok" THEN list_loop(rest, syntax_tree_list, calls)
    ELSE list_loop(rest, Append(syntax_tree_list, <<entry[1], r.node, entry[2]>>), calls)

\* lines 304-306: `build_syntax_tree(&regex)?`, then push_back
list_next(rest, syntax_tree_list, calls, entry, r) ==
    IF r.st = "panic"
    THEN [st |-> "panic", list |-> <<>>, err |-> <<>>, calls |-> calls]
    ELSE IF r.st = "err"
    THEN [st |-> "err", list |-> <<>>, err |-> r.err, calls |-> calls]
    ELSE list_loop(rest, Append(syntax_tree_list, <<entry[1], r.node, entry[2]>>), calls)

\* `for regex_entry in regex_list`; calls counts the build_syntax_tree calls
list_loop(rest, syntax_tree_list, calls) ==
    IF rest = <<>>
    THEN [st |-> "ok", list |-> syntax_tree_list, err |-> <<>>, calls |-> calls]
    ELSE list_next(Tail(rest), syntax_tree_list, calls + 1, Head(rest),
                   build_syntax_tree(Head(rest)[1]))

parse_microsyntax_list(list) == list_loop(list, <<>>, 0)

(***************************************************************************)
(* Automaton pipeline                                                      *)
(***************************************************************************)
Init ==
    /\ nfa = NewNFA
    /\ pc = "build"
    /\ result = NewDFA
    /\ q_list = EmptyMap
    /\ work_list = <<>>
    /\ alpha_order = <<>>
    /\ lookup_table = NewLookupTable
    /\ number_of_sets = 0
    /\ sets = {}
    /\ minimal_dfa = NewDFA
    /\ stdout = <<>>
    /\ regex = <<>>
    /\ parsed = NotParsed
    /\ passes = 0
    /\ regex_list = <<>>
    /\ list_result = NotListed

\* NFA builder: a transition between two existing states
NfaAddTransition ==
    /\ pc = "build"
    /\ Cardinality(nfa.trans) < MaxNfaEdges
    /\ \E from \in nfa_states(nfa), sym \in Chars \cup {Epsilon}, to \in nfa_states(nfa) :
          /\ <<from, sym, to>> \notin nfa.trans
          /\ nfa' = [nfa EXCEPT !.trans = @ \cup {<<from, sym, to>>}]
    /\ UNCHANGED <<passes, listVars>>
    /\ UNCHANGED <<pc, result, q_list, work_list, alpha_order, lookup_table,
                   number_of_sets, sets, minimal_dfa, stdout, regex, parsed>>

\* NFA builder: a new state (dense id) entered by a transition
NfaAddState ==
    /\ pc = "build"
    /\ Cardinality(nfa.trans) < MaxNfaEdges
    /\ nfa.num_states < MaxNfaStates
    /\ \E from \in nfa_states(nfa), sym \in Chars \cup {Epsilon} :
          nfa' = [nfa EXCEPT !.num_states = @ + 1,
                             !.trans = @ \cup {<<from, sym, nfa.num_states>>}]
    /\ UNCHANGED <<passes, listVars>>
    /\ UNCHANGED <<pc, result, q_list, work_list, alpha_order, lookup_table,
                   number_of_sets, sets, minimal_dfa, stdout, regex, parsed>>

\* NFA builder: set_accept_state
NfaSetAccept ==
    /\ pc = "build"
    /\ \E id \in nfa_states(nfa) \ nfa.accept_states :
          nfa' = [nfa EXCEPT !.accept_states = @ \cup {id}]
    /\ UNCHANGED <<passes, listVars>>
    /\ UNCHANGED <<pc, result, q_list, work_list, alpha_order, lookup_table,
                   number_of_sets, sets, minimal_dfa, stdout, regex, parsed>>

\* construct_dfa, lines 378-402
DfaStart ==
    /\ pc = "build"
    /\ \E order \in Perms(nfa_alphabet(nfa)) :
          LET r0 == dfa_add_state([NewDFA EXCEPT !.alphabet = nfa_alphabet(nfa)])
              di == 0
              q0 == get_epsilon_closure(nfa, {nfa.start_state})
          IN /\ alpha_order' = order
             /\ q_list' = (q0 :> di)
             /\ work_list' = <<q0>>
             /\ result' = IF q0 \cap nfa.accept_states # {}
                          THEN dfa_set_accept_state(r0, di) ELSE r0
    /\ pc' = "dfa"
    /\ UNCHANGED <<passes, listVars>>
    /\ UNCHANGED <<nfa, lookup_table, number_of_sets, sets, minimal_dfa, stdout,
                   regex, parsed>>

\* construct_dfa, one iteration of `while !work_list.is_empty()`
DfaStep ==
    /\ pc = "dfa"
    /\ work_list # <<>>
    /\ LET q == Head(work_list)
           st == dfa_for_chars(nfa,
                    [result |-> result, q_list |-> q_list,
                     work_list |-> Tail(work_list)], q, alpha_order)
       IN /\ result' = st.result
          /\ q_list' = st.q_list
          /\ work_list' = st.work_list
    /\ UNCHANGED <<passes, listVars>>
    /\ UNCHANGED <<nfa, pc, alpha_order, lookup_table, number_of_sets, sets,
                   minimal_dfa, stdout, regex, parsed>>

\* construct_dfa, lines 443-447: the loop is over, construct_minimal_dfa(&result)
\* is entered and builds the initial partition (lines 285-296)
MinInit ==
    /\ pc = "dfa"
    /\ work_list = <<>>
    /\ lookup_table' = initial_partition(result)
    /\ pc' = "min_loop"
    /\ passes' = 0
    /\ UNCHANGED listVars
    /\ UNCHANGED <<nfa, result, q_list, work_list, alpha_order, number_of_sets,
                   sets, minimal_dfa, stdout, regex, parsed>>

\* lines 299-301: head of the refinement loop
PassStart ==
    /\ pc = "min_loop"
    /\ number_of_sets' = get_num_sets(lookup_table)
    /\ sets' = get_sets(lookup_table)
    /\ pc' = "min_sets"
    /\ passes' = passes + 1
    /\ UNCHANGED listVars
    /\ UNCHANGED <<nfa, result, q_list, work_list, alpha_order, lookup_table,
                   minimal_dfa, stdout, regex, parsed>>

\* lines 305-358: the iterations of `for set in sets` up to and including the
\* next set with more than one state (a set of one state is skipped, line 306)
VisitSet ==
    /\ pc = "min_sets"
    /\ \E set \in sets :
          /\ Cardinality(set) > 1
          /\ \E order \in Perms(set) :
                lookup_table' = visit_set(result, lookup_table, order, alpha_order)
          /\ sets' = sets \ {set}
    /\ UNCHANGED <<passes, listVars>>
    /\ UNCHANGED <<nfa, pc, result, q_list, work_list, alpha_order,
                   number_of_sets, minimal_dfa, stdout, regex, parsed>>

\* variant: the loop goes on while the number of sets is unchanged
loop_breaks_on_change(number_of_sets_, new_number_of_sets) ==
    number_of_sets_ # new_number_of_sets

\* lines 360-364: `if number_of_sets == new_number_of_sets { break; }`
loop_breaks(number_of_sets_, new_number_of_sets) ==
    number_of_sets_ = new_number_of_sets

\* lines 360-364: the remaining sets of one state are skipped; another pass,
\* or the loop ends
PassEnd ==
    /\ pc = "min_sets"
    /\ \A set \in sets : Cardinality(set) = 1
    /\ sets' = {}
    /\ pc' = IF loop_breaks(number_of_sets, get_num_sets(lookup_table))
             THEN "min_done" ELSE "min_loop"
    /\ UNCHANGED <<passes, listVars>>
    /\ UNCHANGED <<nfa, result, q_list, work_list, alpha_order, lookup_table,
                   number_of_sets, minimal_dfa, stdout, regex, parsed>>

\* lines 367-376: the sets are printed, the local minimal_dfa is DFA::new()
MinPrint ==
    /\ pc = "min_done"
    /\ minimal_dfa' = NewDFA
    /\ stdout' = Append(stdout, get_sets(lookup_table))
    /\ pc' = "returned"
    /\ UNCHANGED <<passes, listVars>>
    /\ UNCHANGED <<nfa, result, q_list, work_list, alpha_order, lookup_table,
                   number_of_sets, sets, regex, parsed>>

\* the public construct_minimal_dfa is called again on the returned DFA
MinAgain ==
    /\ pc = "returned"
    /\ Len(stdout) < MaxMinimizeCalls
    /\ lookup_table' = initial_partition(result)
    /\ pc' = "min_loop"
    /\ passes' = 0
    /\ UNCHANGED listVars
    /\ UNCHANGED <<nfa, result, q_list, work_list, alpha_order, number_of_sets,
                   sets, minimal_dfa, stdout, regex, parsed>>

Next ==
    \/ NfaAddTransition
    \/ NfaAddState
    \/ NfaSetAccept
    \/ DfaStart
    \/ DfaStep
    \/ MinInit
    \/ PassStart
    \/ VisitSet
    \/ PassEnd
    \/ MinPrint
    \/ MinAgain

Spec == Init /\ [][Next]_vars

(***************************************************************************)
(* Parser runs: a pattern is typed in, then build_syntax_tree is called    *)
(***************************************************************************)
InitParse ==
    /\ nfa = NewNFA
    /\ pc = "pattern"
    /\ result = NewDFA
    /\ q_list = EmptyMap
    /\ work_list = <<>>
    /\ alpha_order = <<>>
    /\ lookup_table = NewLookupTable
    /\ number_of_sets = 0
    /\ sets = {}
    /\ minimal_dfa = NewDFA
    /\ stdout = <<>>
    /\ regex = <<>>
    /\ parsed = NotParsed
    /\ passes = 0
    /\ regex_list = <<>>
    /\ list_result = NotListed

\* one more character of the pattern
PatternChar ==
    /\ pc = "pattern"
    /\ Len(regex) < MaxPatternLen
    /\ \E c \in PatternChars : regex' = Append(regex, c)
    /\ UNCHANGED <<passes, listVars>>
    /\ UNCHANGED <<nfa, pc, result, q_list, work_list, alpha_order, lookup_table,
                   number_of_sets, sets, minimal_dfa, stdout, parsed>>

\* build_syntax_tree(regex): parse_regex(regex, 0)
BuildSyntaxTree ==
    /\ pc = "pattern"
    /\ parsed' = parse_regex(regex, 0)
    /\ pc' = "parsed"
    /\ UNCHANGED <<passes, listVars>>
    /\ UNCHANGED <<nfa, result, q_list, work_list, alpha_order, lookup_table,
                   number_of_sets, sets, minimal_dfa, stdout, regex>>

NextParse ==
    \/ PatternChar
    \/ BuildSyntaxTree

SpecParse == InitParse /\ [][NextParse]_vars

(***************************************************************************)
(* Character-class runs: the pattern opens a class with "[" and goes on    *)
(* with the characters a class distinguishes, then build_syntax_tree       *)
(***************************************************************************)
ClassChars == {"]", "-", "\\", "a", "n", "*"}

InitClass ==
    /\ nfa = NewNFA
    /\ pc = "class"
    /\ result = NewDFA
    /\ q_list = EmptyMap
    /\ work_list = <<>>
    /\ alpha_order = <<>>
    /\ lookup_table = NewLookupTable
    /\ number_of_sets = 0
    /\ sets = {}
    /\ minimal_dfa = NewDFA
    /\ stdout = <<>>
    /\ regex = <<"[">>
    /\ parsed = NotParsed
    /\ passes = 0
    /\ regex_list = <<>>
    /\ list_result = NotListed

\* one more character after the opening bracket
ClassChar ==
    /\ pc = "class"
    /\ Len(regex) < MaxClassLen
    /\ \E c \in ClassChars : regex' = Append(regex, c)
    /\ UNCHANGED <<passes, listVars>>
    /\ UNCHANGED <<nfa, pc, result, q_list, work_list, alpha_order, lookup_table,
                   number_of_sets, sets, minimal_dfa, stdout, parsed>>

\* build_syntax_tree(regex) on a pattern that starts with a class
BuildClassTree ==
    /\ pc = "class"
    /\ parsed' = parse_regex(regex, 0)
    /\ pc' = "parsed"
    /\ UNCHANGED <<passes, listVars>>
    /\ UNCHANGED <<nfa, result, q_list, work_list, alpha_order, lookup_table,
                   number_of_sets, sets, minimal_dfa, stdout, regex>>

NextClass ==
    \/ ClassChar
    \/ BuildClassTree

SpecClass == InitClass /\ [][NextClass]_vars

(***************************************************************************)
(* Microsyntax lists: (pattern, category) pairs are collected, then        *)
(* parse_microsyntax_list is called                                        *)
(***************************************************************************)
\* patterns that parse, patterns that fail with each of the four errors, and
\* a pattern on which the parser aborts
ListPatterns ==
    {<<"a">>, <<"a", "|", "n">>, <<"(">>, <<"*">>, <<"\\", "a">>,
     <<"[", "n", "-", "a", "]">>, <<"\\">>}

Categories == {"id", "ws"}

InitList ==
    /\ nfa = NewNFA
    /\ pc = "list"
    /\ result = NewDFA
    /\ q_list = EmptyMap
    /\ work_list = <<>>
    /\ alpha_order = <<>>
    /\ lookup_table = NewLookupTable
    /\ number_of_sets = 0
    /\ sets = {}
    /\ minimal_dfa = NewDFA
    /\ stdout = <<>>
    /\ regex = <<>>
    /\ parsed = NotParsed
    /\ passes = 0
    /\ regex_list = <<>>
    /\ list_result = NotListed

\* one more (pattern, category) pair
ListEntry ==
    /\ pc = "list"
    /\ Len(regex_list) < MaxListLen
    /\ \E pattern \in ListPatterns, category \in Categories :
          regex_list' = Append(regex_list, <<pattern, category>>)
    /\ UNCHANGED <<nfa, pc, result, q_list, work_list, alpha_order, lookup_table,
                   number_of_sets, sets, minimal_dfa, stdout, regex, parsed,
                   passes, list_result>>

ParseMicrosyntaxList ==
    /\ pc = "list"
    /\ list_result' = parse_microsyntax_list(regex_list)
    /\ pc' = "listed"
    /\ UNCHANGED <<nfa, result, q_list, work_list, alpha_order, lookup_table,
                   number_of_sets, sets, minimal_dfa, stdout, regex, parsed,
                   passes, regex_list>>

NextList ==
    \/ ListEntry
    \/ ParseMicrosyntaxList

SpecList == InitList /\ [][NextList]_vars

(***************************************************************************)
(* LookupTable runs: any sequence of insert_state_in_set calls             *)
(***************************************************************************)
InitTable ==
    /\ nfa = NewNFA
    /\ pc = "table"
    /\ result = NewDFA
    /\ q_list = EmptyMap
    /\ work_list = <<>>
    /\ alpha_order = <<>>
    /\ lookup_table = NewLookupTable
    /\ number_of_sets = 0
    /\ sets = {}
    /\ minimal_dfa = NewDFA
    /\ stdout = <<>>
    /\ regex = <<>>
    /\ parsed = NotParsed
    /\ passes = 0
    /\ regex_list = <<>>
    /\ list_result = NotListed

InsertStateInSet ==
    /\ pc = "table"
    /\ \E state \in 0 .. MaxTableStates - 1, set \in 0 .. MaxTableSets - 1 :
          lookup_table' = insert_state_in_set(lookup_table, state, set)
    /\ UNCHANGED <<nfa, pc, result, q_list, work_list, alpha_order, number_of_sets,
                   sets, minimal_dfa, stdout, regex, parsed, passes, listVars>>

NextTable == InsertStateInSet

SpecTable == InitTable /\ [][NextTable]_vars

(***************************************************************************)
(* Reference semantics used by the properties                              *)
(***************************************************************************)
RECURSIVE EpsReach(_, _)
\* least set containing S and closed under epsilon-transitions
EpsReach(n, S) ==
    LET S2 == S \cup UNION {nfa_targets(n, s, Epsilon) : s \in S}
    IN IF S2 = S THEN S ELSE EpsReach(n, S2)

RECURSIVE Strings(_)
Strings(k) ==
    IF k = 0 THEN {<<>>}
    ELSE Strings(k - 1) \cup {Append(w, c) : w \in Strings(k - 1), c \in Chars}

RECURSIVE NfaRun(_, _, _)
\* NFA states reachable from the set S by reading w
NfaRun(n, S, w) ==
    IF w = <<>> THEN EpsReach(n, S)
    ELSE NfaRun(n, UNION {nfa_targets(n, s, Head(w)) : s \in EpsReach(n, S)}, Tail(w))

NfaAccepts(n, w) == NfaRun(n, {n.start_state}, w) \cap n.accept_states # {}

RECURSIVE DfaAcceptsFrom(_, _, _)
DfaAcceptsFrom(d, s, w) ==
    IF w = <<>> THEN d.accept_states[s + 1]
    ELSE /\ Head(w) \in DOMAIN get_transitions(d, s)
         /\ DfaAcceptsFrom(d, get_transitions(d, s)[Head(w)], Tail(w))

DfaAccepts(d, w) == DfaAcceptsFrom(d, d.start_state, w)

\* the loop of construct_dfa is over: result is the DFA it returns
DfaBuilt == pc = "dfa" /\ work_list = <<>>

\* the refinement loop of construct_minimal_dfa has stopped
RefinementDone == pc = "min_done"

Blocks == get_sets(lookup_table)

BlockOf(s) == lookup_table.state_to_set_map[s]

\* s and t agree on acceptance and on the destination block of every symbol
AgreeOnBlocks(s, t) ==
    /\ result.accept_states[s + 1] = result.accept_states[t + 1]
    /\ \A c \in Chars :
          LET ts == get_transitions(result, s)
              tt == get_transitions(result, t)
          IN /\ (c \in DOMAIN ts) <=> (c \in DOMAIN tt)
             /\ c \in DOMAIN ts => BlockOf(ts[c]) = BlockOf(tt[c])

RECURSIVE Indistinguishable(_, _)
\* greatest relation R of state pairs with equal acceptance whose transitions
\* are both absent or lead to a pair of R (distinguishability of 4.3)
Indistinguishable(d, R) ==
    LET R2 == {p \in R : \A c \in Chars :
                  LET t1 == get_transitions(d, p[1])
                      t2 == get_transitions(d, p[2])
                  IN /\ (c \in DOMAIN t1) <=> (c \in DOMAIN t2)
                     /\ c \in DOMAIN t1 => <<t1[c], t2[c]>> \in R}
    IN IF R2 = R THEN R ELSE Indistinguishable(d, R2)

Equivalent(d) ==
    Indistinguishable(d, {p \in dfa_ids(d) \X dfa_ids(d) :
                             d.accept_states[p[1] + 1] = d.accept_states[p[2] + 1]})

RECURSIVE QuotientAcceptsFrom(_, _)
\* the quotient automaton: a block moves on c as any of its members does and
\* accepts when a member does
QuotientAcceptsFrom(b, w) ==
    IF w = <<>> THEN \E s \in lookup_table.set_to_states_map[b] :
                        result.accept_states[s + 1]
    ELSE \E s \in lookup_table.set_to_states_map[b] :
            /\ Head(w) \in DOMAIN get_transitions(result, s)
            /\ QuotientAcceptsFrom(BlockOf(get_transitions(result, s)[Head(w)]),
                                   Tail(w))

(***************************************************************************)
(* Properties                                                              *)
(***************************************************************************)

\* C1: the DFA built by construct_dfa accepts a string iff the NFA accepts it
C1_DfaAcceptsNfaLanguage ==
    DfaBuilt =>
        LET ws == Strings(MaxStrLen)
        IN \A w \in ws : DfaAccepts(result, w) <=> NfaAccepts(nfa, w)

\* C1 witness: an NFA with an epsilon-transition whose DFA has three states
\* and accepts a string of two characters
C1_Witness ==
    /\ DfaBuilt
    /\ \E e \in nfa.trans : e[2] = Epsilon
    /\ dfa_get_num_states(result) >= 3
    /\ \E w \in Strings(MaxStrLen) : Len(w) = 2 /\ DfaAccepts(result, w)

\* C2: when the refinement stops the partition is minimal: states of
\* different blocks are never equivalent, and no two states of different
\* blocks agree on acceptance and on the destination block of every symbol
C2_FinalPartitionMinimal ==
    RefinementDone =>
        LET eq == Equivalent(result)
        IN \A s, t \in dfa_ids(result) :
              BlockOf(s) # BlockOf(t) =>
                  /\ <<s, t>> \notin eq
                  /\ ~AgreeOnBlocks(s, t)

\* C3: when the refinement stops, states of one block agree on acceptance and
\* on the destination block of every symbol, they are equivalent, and the
\* quotient by the partition accepts a string iff the DFA does
C3_SameBlockSameLanguage ==
    RefinementDone =>
        LET eq == Equivalent(result)
            ws == Strings(MaxStrLen)
            lang == [s \in dfa_ids(result) |->
                        {w \in ws : DfaAcceptsFrom(result, s, w)}]
        IN /\ \A s, t \in dfa_ids(result) :
                 BlockOf(s) = BlockOf(t) =>
                     /\ AgreeOnBlocks(s, t)
                     /\ <<s, t>> \in eq
                     /\ lang[s] = lang[t]
           /\ \A w \in ws :
                 QuotientAcceptsFrom(BlockOf(result.start_state), w)
                     <=> DfaAccepts(result, w)

\* C3 witness: the refinement has split a block and stopped with a block of
\* two states
C3_Witness ==
    /\ RefinementDone
    /\ Cardinality(Blocks) >= 3
    /\ \E b \in Blocks : Cardinality(b) >= 2

\* C4: every call of construct_minimal_dfa on one DFA ends in the same
\* partition, whatever the iteration orders
C4_Confluent ==
    \A i, j \in 1 .. Len(stdout) : stdout[i] = stdout[j]

\* C5: construct_minimal_dfa builds the minimal DFA: one state per final
\* block, and its start state is the block of the original start state
C5_MinimalDfaBuilt ==
    pc = "returned" =>
        /\ dfa_get_num_states(minimal_dfa) = Cardinality(Blocks)
        /\ minimal_dfa.start_state \in DOMAIN lookup_table.set_to_states_map
        /\ result.start_state \in lookup_table.set_to_states_map[minimal_dfa.start_state]

(***************************************************************************)
(* Parser properties                                                       *)
(***************************************************************************)
RECURSIVE UnparseRegex(_)
RECURSIVE UnparseTerm(_)

QuantifierText(q) ==
    CASE q = "Star" -> <<"*">> [] q = "Question" -> <<"?">>
      [] q = "Plus" -> <<"+">> [] OTHER -> <<>>

\* the text of a base that is not a character class
UnparseBase(b) ==
    CASE b.kind = "Character" -> <<b.c>>
      [] b.kind = "EscapeCharacter" -> <<"\\", b.c>>
      [] b.kind = "Exp" -> <<"(">> \o UnparseRegex(b.regex) \o <<")">>
      [] OTHER -> <<"[", "]">>

UnparseFactor(f) == UnparseBase(f.base) \o QuantifierText(f.quantifier)

\* the tail of a ConcatTerm is the text to the left of its factor
UnparseTerm(t) ==
    IF t.kind = "SimpleTerm" THEN UnparseFactor(t.factor)
    ELSE UnparseTerm(t.term) \o UnparseFactor(t.factor)

UnparseRegex(r) ==
    IF r.kind = "SimpleRegex" THEN UnparseTerm(r.term)
    ELSE UnparseTerm(r.term) \o <<"|">> \o UnparseRegex(r.regex)

RECURSIVE FactorCount(_)
FactorCount(t) == IF t.kind = "SimpleTerm" THEN 1 ELSE 1 + FactorCount(t.term)

RECURSIVE Terms(_)
\* the terms on the spine of an alternation, outermost first
Terms(r) ==
    IF r.kind = "SimpleRegex" THEN <<r.term>> ELSE <<r.term>> \o Terms(r.regex)

RECURSIVE split_loop(_, _, _, _, _)
\* the pieces of a pattern between the | that are outside every bracket and
\* not escaped
split_loop(s, i, depth, cur, acc) ==
    IF i > Len(s) THEN Append(acc, cur)
    ELSE IF s[i] = "\\"
    THEN split_loop(s, i + 2, depth,
                    cur \o SubSeq(s, i, IF i < Len(s) THEN i + 1 ELSE i), acc)
    ELSE IF s[i] = "|" /\ depth = 0
    THEN split_loop(s, i + 1, depth, <<>>, Append(acc, cur))
    ELSE split_loop(s, i + 1,
                    IF s[i] \in {"(", "["} THEN depth + 1
                    ELSE IF s[i] \in {")", "]"} THEN depth - 1 ELSE depth,
                    Append(cur, s[i]), acc)

SplitTop(s) == split_loop(s, 1, 0, <<>>, <<>>)

NoClass(s) == \A i \in 1 .. Len(s) : s[i] # "["

\* the escape alphabet of the pattern language
EscapeAlphabet == {"n", "t", "r", "\\", "(", ")", "[", "]", "|", "*", "+", "?"}

ParsedOk == pc = "parsed" /\ parsed.st = "ok"

\* C6: a successful parse_regex(pattern, 0) returns the length of the pattern
C6_WholeInputConsumed ==
    ParsedOk => parsed.idx = len(regex)

\* C7: the factors of a term nest with the last factor outermost and the
\* first innermost, each quantifier attached to the base just before it:
\* reading every term from its innermost factor outwards gives back the pattern
C7_ConcatLastFactorOutermost ==
    (ParsedOk /\ NoClass(regex)) => UnparseRegex(parsed.node) = regex

\* C7 witness: a*na parsed: three factors, the first one starred
C7_Witness ==
    /\ ParsedOk
    /\ NoClass(regex)
    /\ parsed.node.kind = "SimpleRegex"
    /\ FactorCount(parsed.node.term) = 3
    /\ parsed.node.term.term.term.factor.quantifier = "Star"
    /\ parsed.node.term.factor.quantifier = "None"

\* C8: t1 | t2 | ... | tn parses to AlterRegex(t1, AlterRegex(t2, ...
\* SimpleRegex(tn))): the i-th term of the spine is the i-th piece of the
\* pattern between top-level bars
C8_AlternationRightAssociative ==
    ParsedOk =>
        LET ts == Terms(parsed.node)
            pieces == SplitTop(regex)
        IN /\ Len(ts) = Len(pieces)
           /\ NoClass(regex) => \A i \in 1 .. Len(ts) : UnparseTerm(ts[i]) = pieces[i]

\* C8 witness: an alternation of three terms, the first and last different
C8_Witness ==
    /\ ParsedOk
    /\ NoClass(regex)
    /\ Len(Terms(parsed.node)) = 3
    /\ Terms(parsed.node)[1] # Terms(parsed.node)[3]

\* C9: build_syntax_tree returns a tree or one of the four parser errors and
\* never panics
C9_StructuredErrorsOnly ==
    pc = "parsed" =>
        \/ parsed.st = "ok"
        \/ /\ parsed.st = "err"
           /\ parsed.err.kind \in {"UnbalancedParenthesisError", "InvalidRegexError",
                                   "InvalidEscapeCharacter", "InvalidCharacterRange"}

\* C10: a backslash taken as the start of an escape and followed by a
\* character c outside the escape alphabet makes the parse fail with
\* InvalidEscapeCharacter(c), and no other escape ever yields that error
C10_InvalidEscapeRejected ==
    pc = "parsed" =>
        /\ \A i \in parsed.esc :
              (i + 1 < Len(regex) /\ regex[i + 2] \notin EscapeAlphabet) =>
                  /\ parsed.st = "err"
                  /\ parsed.err = InvalidEscapeCharacter(regex[i + 2])
        /\ (parsed.st = "err" /\ parsed.err.kind = "InvalidEscapeCharacter") =>
              \E i \in parsed.esc :
                  /\ i + 1 < Len(regex)
                  /\ regex[i + 2] \notin EscapeAlphabet
                  /\ parsed.err.text = <<regex[i + 2]>>
        /\ (\A i \in parsed.esc : i + 1 < Len(regex) /\ regex[i + 2] \in EscapeAlphabet) =>
              ~(parsed.st = "err" /\ parsed.err.kind = "InvalidEscapeCharacter")

\* C10 witness: a valid escape is consumed, then an invalid one fails the parse
C10_Witness ==
    /\ pc = "parsed"
    /\ parsed.st = "err"
    /\ parsed.err.kind = "InvalidEscapeCharacter"
    /\ \E i, j \in parsed.esc :
          i < j /\ regex[i + 2] \in EscapeAlphabet /\ regex[j + 2] \notin EscapeAlphabet

(***************************************************************************)
(* Character classes read item by item, up to the closing bracket          *)
(***************************************************************************)
EscapeTarget(c) ==
    IF c = "n" THEN 10 ELSE IF c = "t" THEN 9 ELSE IF c = "r" THEN 13 ELSE CodePoint(c)

RECURSIVE class_items(_, _, _)
\* the items of the class from position i on: a range a-b (b a character of
\* the class, not its closing bracket), an escape, or a literal character
class_items(s, i, set) ==
    LET c0 == nth(s, i)
        c1 == nth(s, i + 1)
        c2 == nth(s, i + 2)
    IN IF c0 = None THEN [st |-> "open", set |-> set, range |-> <<>>]
       ELSE IF c0 = "]" THEN [st |-> "ok", set |-> set, range |-> <<>>]
       ELSE IF c1 = "-" /\ c2 # None /\ c2 # "]"
       THEN IF CodePoint(c2) < CodePoint(c0)
            THEN [st |-> "range", set |-> set, range |-> <<c0, c2>>]
            ELSE class_items(s, i + 3, set \cup (CodePoint(c0) .. CodePoint(c2)))
       ELSE IF c0 = "\\"
       THEN IF c1 = None THEN [st |-> "open", set |-> set, range |-> <<>>]
            ELSE IF c1 \notin EscapeAlphabet
            THEN [st |-> "escape", set |-> set, range |-> <<>>]
            ELSE class_items(s, i + 2, set \cup {EscapeTarget(c1)})
       ELSE class_items(s, i + 1, set \cup {CodePoint(c0)})

RECURSIVE FirstFactor(_)
FirstFactor(t) == IF t.kind = "SimpleTerm" THEN t.factor ELSE FirstFactor(t.term)

\* C11: for a pattern that starts with a character class, a successful parse
\* gives the CharSet that is the union of the class's items up to the
\* closing bracket (a range a-b with a <= b gives a..b, an escape its
\* character, a literal itself), and the parse fails with
\* InvalidCharacterRange(a, b) exactly when the first defective item is a
\* range a-b with b < a.
C11_CharSetIsUnionOfItems ==
    LET ref == class_items(regex, 1, {})
    IN (pc = "parsed" /\ regex[1] = "[" /\ balanced_brackets(regex)) =>
          /\ parsed.st = "ok" =>
                /\ ref.st = "ok"
                /\ FirstFactor(parsed.node.term).base = CharSet(ref.set)
          /\ ref.st = "range" => parsed = Err(InvalidCharacterRange(ref.range[1], ref.range[2]), parsed.esc)
          /\ (parsed.st = "err" /\ parsed.err.kind = "InvalidCharacterRange") =>
                (ref.st = "range" /\ parsed.err.text = ref.range)

(***************************************************************************)
(* Bracket nesting                                                         *)
(***************************************************************************)
RECURSIVE Unescaped(_)
\* the pattern without the backslashes and the characters that follow them
Unescaped(s) ==
    IF s = <<>> THEN <<>>
    ELSE IF Head(s) = "\\"
    THEN IF Len(s) = 1 THEN <<>> ELSE Unescaped(Tail(Tail(s)))
    ELSE <<Head(s)>> \o Unescaped(Tail(s))

BracketsOf(s) == SelectSeq(s, LAMBDA c : c \in {"(", ")", "[", "]"})

RECURSIVE Reduce(_)
\* delete adjacent matching pairs until none is left
Reduce(b) ==
    LET pairs == {i \in 1 .. Len(b) - 1 :
                     <<b[i], b[i + 1]>> \in {<<"(", ")">>, <<"[", "]">>}}
    IN IF pairs = {} THEN b
       ELSE LET i == Min(pairs)
            IN Reduce(SubSeq(b, 1, i - 1) \o SubSeq(b, i + 2, Len(b)))

ProperlyNested(s) == Reduce(BracketsOf(Unescaped(s))) = <<>>

\* C12: build_syntax_tree fails with UnbalancedParenthesisError(pattern)
\* exactly when the brackets of the pattern, the characters after a
\* backslash left out, are not properly nested and closed, whatever else is
\* wrong with the pattern.
C12_UnbalancedIffNotNested ==
    pc = "parsed" =>
        (parsed = Err(UnbalancedParenthesisError(regex), {}) <=> ~ProperlyNested(regex))
        /\ (parsed.st = "err" /\ parsed.err.kind = "UnbalancedParenthesisError"
              => parsed.err.text = regex)

\* an unbalanced pattern that also holds an escaped bracket and an escape
\* that is not recognised
C12_Witness ==
    /\ pc = "parsed"
    /\ parsed.st = "err"
    /\ parsed.err.kind = "UnbalancedParenthesisError"
    /\ \E i, j \in 1 .. Len(regex) - 1 :
          /\ i + 1 < j
          /\ regex[i] = "\\" /\ regex[i + 1] \in {"(", ")", "[", "]"}
          /\ regex[j] = "\\" /\ regex[j + 1] \notin EscapeAlphabet

(***************************************************************************)
(* Literals                                                                *)
(***************************************************************************)
Metacharacters == {"(", ")", "[", "]", "|", "*", "+", "?", "\\"}

RECURSIVE LiteralsOfRegex(_)
RECURSIVE LiteralsOfTerm(_)
\* the characters of the Base::Character nodes of a tree
LiteralsOfBase(b) ==
    IF b.kind = "Character" THEN {b.c}
    ELSE IF b.kind = "Exp" THEN LiteralsOfRegex(b.regex)
    ELSE {}

LiteralsOfTerm(t) ==
    IF t.kind = "SimpleTerm" THEN LiteralsOfBase(t.factor.base)
    ELSE LiteralsOfBase(t.factor.base) \cup LiteralsOfTerm(t.term)

LiteralsOfRegex(r) ==
    IF r.kind = "SimpleRegex" THEN LiteralsOfTerm(r.term)
    ELSE LiteralsOfTerm(r.term) \cup LiteralsOfRegex(r.regex)

\* C13: no Base::Character node of a successfully parsed tree carries one of
\* the nine metacharacters, and the empty pattern and a balanced pattern
\* that starts with *, | or ? (its first position is a base position) fail
\* with InvalidRegexError.
C13_LiteralsAreNotMetacharacters ==
    pc = "parsed" =>
        /\ parsed.st = "ok" => LiteralsOfRegex(parsed.node) \cap Metacharacters = {}
        /\ (regex = <<>> \/ (ProperlyNested(regex) /\ regex[1] \in {"*", "|", "?", ")", "]"}))
              => parsed = Err(InvalidRegexError(regex), {})

(***************************************************************************)
(* Microsyntax lists                                                       *)
(***************************************************************************)
\* positions of the input whose pattern does not parse
Failing(list) == {i \in 1 .. Len(list) : build_syntax_tree(list[i][1]).st # "ok"}

\* C14: when every pattern parses, parse_microsyntax_list returns one entry
\* per input pair, entry i carrying the pattern, the tree and the category
\* of pair i; otherwise it stops at the first pattern that does not parse,
\* having parsed nothing after it, returns no list, and when that pattern
\* fails with an error the call returns this error.
C14_OrderKeptHaltOnFirstFailure ==
    pc = "listed" =>
        IF Failing(regex_list) = {}
        THEN /\ list_result.st = "ok"
             /\ Len(list_result.list) = Len(regex_list)
             /\ \A i \in 1 .. Len(regex_list) :
                   list_result.list[i] =
                       <<regex_list[i][1], build_syntax_tree(regex_list[i][1]).node,
                         regex_list[i][2]>>
        ELSE LET first == Min(Failing(regex_list))
                 r == build_syntax_tree(regex_list[first][1])
             IN /\ list_result.st = r.st
                /\ list_result.err = r.err
                /\ list_result.list = <<>>
                /\ list_result.calls = first

\* a failing pattern between a pattern that parses and another failing one
C14_Witness ==
    /\ pc = "listed"
    /\ Len(regex_list) = 3
    /\ Failing(regex_list) = {2, 3}
    /\ list_result.st = "err"
    /\ list_result.calls = 2
    /\ build_syntax_tree(regex_list[3][1]).st = "err"
    /\ build_syntax_tree(regex_list[3][1]).err # list_result.err

(***************************************************************************)
(* Shape of the DFA under construction                                     *)
(***************************************************************************)
\* every transition key is a character of the alphabet, every target a state
TransitionsAreOverAlphabet ==
    \A id \in dfa_ids(result) :
        /\ DOMAIN get_transitions(result, id) \subseteq result.alphabet
        /\ Epsilon \notin DOMAIN get_transitions(result, id)
        /\ \A c \in DOMAIN get_transitions(result, id) :
              get_transitions(result, id)[c] \in dfa_ids(result)

\* a transition that exists keeps its target
TransitionsKeepTarget ==
    \A id \in dfa_ids(result) :
        \A c \in DOMAIN get_transitions(result, id) :
            /\ id \in dfa_ids(result')
            /\ c \in DOMAIN get_transitions(result', id)
            /\ get_transitions(result', id)[c] = get_transitions(result, id)[c]

\* C15: at every step of construct_dfa every transition key of every DFA
\* state is a character of the alphabet, never epsilon, and a (state,
\* character) transition once written is never written again with another
\* target.
C15_NoEpsilonOneTargetPerSymbol ==
    [](pc \in {"dfa", "min_loop", "min_sets", "min_done", "returned"}
          => TransitionsAreOverAlphabet)
    /\ [][pc = "dfa" => TransitionsKeepTarget]_vars

\* a finished DFA with a state that has a transition on each of two
\* characters
C15_Witness ==
    /\ DfaBuilt
    /\ dfa_get_num_states(result) >= 3
    /\ \E id \in dfa_ids(result) : Cardinality(DOMAIN get_transitions(result, id)) = 2

(***************************************************************************)
(* Progress of the refinement loop                                         *)
(***************************************************************************)
Refining == pc \in {"min_loop", "min_sets", "min_done"}

\* C16: the refinement loop of construct_minimal_dfa terminates: the number
\* of blocks never decreases and never exceeds the number of DFA states, a
\* pass that is followed by another pass has strictly increased it, the
\* pass after which the loop ends has not, and so no call begins more
\* passes than the DFA has states.
C16_RefinementTerminates ==
    /\ [](Refining =>
            /\ get_num_sets(lookup_table) <= dfa_get_num_states(result)
            /\ passes <= dfa_get_num_states(result))
    /\ [][(Refining /\ Refining') =>
            /\ get_num_sets(lookup_table') >= get_num_sets(lookup_table)
            /\ (pc = "min_sets" /\ pc' = "min_loop"
                  => get_num_sets(lookup_table) > number_of_sets)
            /\ (pc = "min_sets" /\ pc' = "min_done"
                  => get_num_sets(lookup_table) = number_of_sets)]_vars

\* a refinement that ended after three passes, two of which split a block
C16_Witness ==
    /\ pc = "min_done"
    /\ passes = 3
    /\ get_num_sets(lookup_table) >= 3

(***************************************************************************)
(* The two maps of the LookupTable                                         *)
(***************************************************************************)
\* C17: after any sequence of insert_state_in_set calls the two maps of the
\* LookupTable are inverse of each other: a state maps to block b iff it is
\* a member of the set stored for b, so every inserted state is in exactly
\* one block, and no stored block is empty.
C17_MapsAreInverse ==
    LET s2b == lookup_table.state_to_set_map
        b2s == lookup_table.set_to_states_map
    IN /\ \A s \in DOMAIN s2b : s2b[s] \in DOMAIN b2s /\ s \in b2s[s2b[s]]
       /\ \A b \in DOMAIN b2s :
             /\ b2s[b] # {}
             /\ \A s \in b2s[b] : s \in DOMAIN s2b /\ s2b[s] = b
       /\ \A s \in DOMAIN s2b : Cardinality({b \in DOMAIN b2s : s \in b2s[b]}) = 1

\* every state has been inserted, two of them share a block, and a block id
\* below the ones in use is not stored (any state first inserted there has
\* been moved out)
C17_Witness ==
    /\ pc = "table"
    /\ DOMAIN lookup_table.state_to_set_map = 0 .. MaxTableStates - 1
    /\ DOMAIN lookup_table.set_to_states_map = {1, 2}
    /\ \E b \in {1, 2} : Cardinality(lookup_table.set_to_states_map[b]) >= 2

(***************************************************************************)
(* Blocks are split, never merged                                          *)
(***************************************************************************)
\* the partition a call starts with: acceptors in 0, the others in 1
InitialBlocks ==
    LET acc == dfa_accepting(result)
        non == dfa_ids(result) \ acc
    IN [b \in {x \in {0, 1} : (IF x = 0 THEN acc ELSE non) # {}} |->
           IF b = 0 THEN acc ELSE non]

\* C18: a call of construct_minimal_dfa starts from the accepting states in
\* block 0 and the others in block 1 (an empty block is not stored); the id
\* for a split-off block, the number of blocks plus one, is never the id of
\* a stored block; every block is a subset of a block of the partition
\* before the step; and no block holds both an accepting and a
\* non-accepting state.
C18_BlocksOnlySplit ==
    /\ [](Refining =>
            /\ get_num_sets(lookup_table) + 1 \notin DOMAIN lookup_table.set_to_states_map
            /\ \A b \in get_sets(lookup_table) :
                  b \subseteq dfa_accepting(result) \/ b \cap dfa_accepting(result) = {})
    /\ [][/\ (pc \in {"dfa", "returned"} /\ pc' = "min_loop")
               => lookup_table'.set_to_states_map = InitialBlocks
          /\ (Refining /\ Refining')
               => \A b \in get_sets(lookup_table') :
                     \E a \in get_sets(lookup_table) : b \subseteq a]_vars

\* a finished refinement in which both initial blocks exist and a block has
\* been split off twice
C18_Witness ==
    /\ pc = "min_done"
    /\ {0, 1} \subseteq DOMAIN lookup_table.set_to_states_map
    /\ get_num_sets(lookup_table) >= 4

(***************************************************************************)
(* Epsilon closure                                                         *)
(***************************************************************************)
\* C19: for every NFA that is built or handed to construct_dfa and every set
\* Q of its states,
\* get_epsilon_closure returns a set that contains Q, is closed under
\* epsilon-transitions, and holds nothing but the states reachable from Q
\* by epsilon-transitions (epsilon-cycles and self-loops included).
C19_ClosureIsEpsilonReachability ==
    pc \in {"build", "dfa"} => \A Q \in SUBSET nfa_states(nfa) :
        LET closure == get_epsilon_closure(nfa, Q)
        IN /\ Q \subseteq closure
           /\ \A s \in closure : nfa_targets(nfa, s, Epsilon) \subseteq closure
           /\ closure = EpsReach(nfa, Q)

\* construct_dfa has run on an NFA with an epsilon-cycle through two states
\* and an epsilon self-loop
C19_Witness ==
    /\ DfaBuilt
    /\ \E s, t \in nfa_states(nfa) :
          /\ s # t
          /\ {<<s, Epsilon, t>>, <<t, Epsilon, s>>} \subseteq nfa.trans
    /\ \E u \in nfa_states(nfa) : <<u, Epsilon, u>> \in nfa.trans
    /\ \E q \in DOMAIN q_list : Cardinality(q) >= 2

(***************************************************************************)
(* Bookkeeping of the subset construction                                  *)
(***************************************************************************)
Constructing == pc \in {"dfa", "min_loop", "min_sets", "min_done", "returned"}

NoDuplicates(seq) == \A i, j \in 1 .. Len(seq) : seq[i] = seq[j] => i = j

\* C20: the discovered NFA state sets are non-empty and epsilon-closed, each
\* has exactly one DFA state and each DFA state stands for one set, state 0
\* for the closure of the NFA start state; ids are given in order of
\* discovery; a set is put on the work list when it is discovered and at no
\* other time; and a DFA state is accepting iff its set holds an accepting
\* NFA state.
C20_OneStatePerDiscoveredSet ==
    /\ [](Constructing =>
            /\ \A q \in DOMAIN q_list : q # {} /\ EpsReach(nfa, q) = q
            /\ \A q1, q2 \in DOMAIN q_list : q_list[q1] = q_list[q2] => q1 = q2
            /\ Range(q_list) = dfa_ids(result)
            /\ q_list[EpsReach(nfa, {nfa.start_state})] = 0
            /\ result.start_state = 0
            /\ NoDuplicates(work_list)
            /\ Range(work_list) \subseteq DOMAIN q_list
            /\ \A q \in DOMAIN q_list :
                  (q_list[q] \in dfa_accepting(result)) <=> (q \cap nfa.accept_states # {}))
    /\ [][/\ (pc = "build" /\ pc' = "dfa")
               => work_list' = <<EpsReach(nfa, {nfa.start_state})>>
          /\ (pc = "dfa" /\ pc' = "dfa")
               => LET n == dfa_get_num_states(result)
                      new == SubSeq(work_list', Len(work_list), Len(work_list'))
                  IN /\ Len(work_list') >= Len(work_list) - 1
                     /\ SubSeq(work_list', 1, Len(work_list) - 1) = Tail(work_list)
                     /\ Range(new) = DOMAIN q_list' \ DOMAIN q_list
                     /\ \A i \in 1 .. Len(new) : q_list'[new[i]] = n + i - 1
                     /\ \A q \in DOMAIN q_list : q_list'[q] = q_list[q]]_vars

\* a finished construction of four or more DFA states, accepting and
\* non-accepting ones, one of which stands for several NFA states
C20_Witness ==
    /\ DfaBuilt
    /\ dfa_get_num_states(result) >= 4
    /\ dfa_accepting(result) \notin {{}, dfa_ids(result)}
    /\ \E q \in DOMAIN q_list : Cardinality(q) >= 2

====
